---- MODULE Spec2Model ----
(***************************************************************************)
(* Name validation, uniqueness and pairing rules of the semantic manifest  *)
(* (dbt_semantic_interfaces/validations/unique_valid_name.py) and the      *)
(* transform rule engine exercised by                                      *)
(* tests/transformations/test_configurable_transform_rules.py.             *)
(***************************************************************************)
EXTENDS Integers, Sequences, FiniteSets, TLC

VARIABLES
    semantic_models,   \* semantic_manifest.semantic_models
    metrics,           \* semantic_manifest.metrics
    name,              \* the argument of check_valid_name
    pc,                \* which rule runs and whether it has returned
    idx,               \* position of the loop of validate_manifest / of the engine
    known_pairings,    \* PrimaryEntityDimensionPairs: primary entity -> dimension -> model
    primary_entity,    \* local of the last _check_semantic_model call
    issues,            \* the issues collected so far / returned
    rules,             \* ordered_rule_sequences of the transform engine
    manifest,          \* the manifest the transform engine threads through the rules
    received           \* per rule application so far: its place, what it received and returned

vars == <<semantic_models, metrics, name, pc, idx, known_pairings,
          primary_entity, issues, rules, manifest, received>>

----------------------------------------------------------------------------
(* Bounds of the model.                                                     *)

MaxModels == 2        \* semantic models of a manifest (pairing rule)
MaxResolveModels == 2 \* semantic models of a manifest (primary entity resolution)
MaxDimensions == 2    \* dimensions of a semantic model
MaxEntities == 2      \* entities of a semantic model (primary entity resolution)

----------------------------------------------------------------------------
(* Values.                                                                  *)

None == "None"

ModelNames == {"listings", "bookings"}
EntityNames == {"host", "guest"}
DimensionNames == {"created_at", "country"}
EntityTypes == {"PRIMARY", "FOREIGN"}

SeqUpTo(S, n) == UNION {[1..k -> S] : k \in 0..n}

Entities == [name : EntityNames, type : EntityTypes]

EmptyDict == [k \in {} |-> k]

\* d[k] = v of a Python dict
DictSet(d, k, v) == [x \in (DOMAIN d) \cup {k} |-> IF x = k THEN v ELSE d[x]]

\* d.get(k) is None, for a dict whose values are never None
DictGetIsNone(d, k) == k \notin DOMAIN d

----------------------------------------------------------------------------
(* PrimaryEntityDimensionPairs                                              *)

\* for entity in semantic_model.entities: if entity.type is PRIMARY: ...; break
RECURSIVE FirstPrimaryEntity(_, _)
FirstPrimaryEntity(entities, i) ==
    IF i > Len(entities) THEN None
    ELSE IF entities[i].type = "PRIMARY" THEN entities[i].name
    ELSE FirstPrimaryEntity(entities, i + 1)

\* a plausible slip: no break, so the last PRIMARY entity wins
RECURSIVE LastPrimaryEntity(_, _)
LastPrimaryEntity(entities, i) ==
    IF i > Len(entities) THEN None
    ELSE LET rest == LastPrimaryEntity(entities, i + 1) IN
         IF rest # None THEN rest
         ELSE IF entities[i].type = "PRIMARY" THEN entities[i].name
         ELSE None

ResolveLastPrimary(semantic_model) ==
    IF semantic_model.primary_entity # None THEN semantic_model.primary_entity
    ELSE LastPrimaryEntity(semantic_model.entities, 1)

\* the resolution of the primary entity at the head of _check_semantic_model
ResolvePrimaryEntity(semantic_model) ==
    IF semantic_model.primary_entity # None THEN semantic_model.primary_entity
    ELSE FirstPrimaryEntity(semantic_model.entities, 1)

PairingError(semantic_model, pe, dimension, in_use_on) ==
    [kind |-> "duplicate_pairing",
     semantic_model |-> semantic_model.name,
     element_name |-> dimension,
     primary_entity |-> pe,
     in_use_on |-> in_use_on]

\* a plausible slip: the registry is looked up by dimension name alone
CheckDimensionAnyEntity(acc, semantic_model, pe, safe, dimension) ==
    LET kp == acc.known_pairings
        owners == {e \in DOMAIN kp : dimension \in DOMAIN kp[e]}
    IN  IF owners = {}
        THEN [known_pairings |-> DictSet(kp, pe, DictSet(kp[pe], dimension, semantic_model.name)),
              issues |-> acc.issues]
        ELSE [known_pairings |-> kp,
              issues |-> Append(acc.issues,
                  PairingError(semantic_model, pe, dimension,
                               kp[CHOOSE e \in owners : TRUE][dimension]))]

\* a plausible slip: a colliding model also takes the registry entry over
CheckDimensionOverwrite(acc, semantic_model, pe, safe, dimension) ==
    LET kp == acc.known_pairings
        taken == DictSet(kp, pe, DictSet(kp[pe], dimension, semantic_model.name))
    IN  IF safe \/ DictGetIsNone(kp[pe], dimension)
        THEN [known_pairings |-> taken, issues |-> acc.issues]
        ELSE [known_pairings |-> taken,
              issues |-> Append(acc.issues,
                  PairingError(semantic_model, pe, dimension, kp[pe][dimension]))]

\* the body of the loop over semantic_model.dimensions
CheckDimension(acc, semantic_model, pe, safe, dimension) ==
    LET kp == acc.known_pairings IN
    IF safe \/ DictGetIsNone(kp[pe], dimension)
    THEN [known_pairings |-> DictSet(kp, pe, DictSet(kp[pe], dimension, semantic_model.name)),
          issues |-> acc.issues]
    ELSE [known_pairings |-> kp,
          issues |-> Append(acc.issues,
              PairingError(semantic_model, pe, dimension, kp[pe][dimension]))]

\* for dimension in semantic_model.dimensions, from the i-th on
RECURSIVE CheckDimensions(_, _, _, _, _)
CheckDimensions(acc, semantic_model, pe, safe, i) ==
    IF i > Len(semantic_model.dimensions) THEN acc
    ELSE CheckDimensions(
             CheckDimension(acc, semantic_model, pe, safe, semantic_model.dimensions[i]),
             semantic_model, pe, safe, i + 1)

\* _check_semantic_model: the issues it returns and the registry it leaves
_check_semantic_model(semantic_model, kp) ==
    LET pe == ResolvePrimaryEntity(semantic_model) IN
    IF pe = None THEN [known_pairings |-> kp, issues |-> <<>>]
    ELSE LET safe == DictGetIsNone(kp, pe)
             kp0 == IF safe THEN DictSet(kp, pe, EmptyDict) ELSE kp
         IN  CheckDimensions([known_pairings |-> kp0, issues |-> <<>>],
                             semantic_model, pe, safe, 1)

\* one iteration of the loop of PrimaryEntityDimensionPairs.validate_manifest
PairingStep ==
    /\ pc = "pairing"
    /\ idx <= Len(semantic_models)
    /\ LET r == _check_semantic_model(semantic_models[idx], known_pairings) IN
         /\ known_pairings' = r.known_pairings
         /\ issues' = issues \o r.issues
    /\ primary_entity' = ResolvePrimaryEntity(semantic_models[idx])
    /\ idx' = idx + 1
    /\ UNCHANGED <<semantic_models, metrics, name, pc, rules, manifest, received>>

\* return issues
PairingReturn ==
    /\ pc = "pairing"
    /\ idx > Len(semantic_models)
    /\ pc' = "pairing_done"
    /\ UNCHANGED <<semantic_models, metrics, name, idx, known_pairings,
                   primary_entity, issues, rules, manifest, received>>

\* the semantic models of the pairing specification: they declare their primary
\* entity or have none, and have no entities
PairingModels ==
    [name : ModelNames,
     primary_entity : {None} \cup EntityNames,
     entities : {<<>>},
     dimensions : SeqUpTo(DimensionNames, MaxDimensions)]

\* the entities of the resolution specification: two PRIMARY ones of different
\* names and one that is not PRIMARY
ResolveEntities ==
    {[name |-> "host", type |-> "PRIMARY"],
     [name |-> "guest", type |-> "PRIMARY"],
     [name |-> "guest", type |-> "FOREIGN"]}

\* the semantic models of the resolution specification: with or without a
\* declared primary entity, up to MaxEntities entities, all declaring created_at
ResolveModels ==
    [name : {"listings"},
     primary_entity : {None, "guest"},
     entities : SeqUpTo(ResolveEntities, MaxEntities),
     dimensions : {<<"created_at">>}]

PairingInit(models) ==
    /\ semantic_models \in models
    /\ metrics = <<>>
    /\ name = <<>>
    /\ pc = "pairing"
    /\ idx = 1
    /\ known_pairings = EmptyDict
    /\ primary_entity = None
    /\ issues = <<>>
    /\ rules = <<>>
    /\ manifest = None
    /\ received = <<>>

\* manifests of up to MaxModels models that declare their primary entity or have none
InitPairing == PairingInit(SeqUpTo(PairingModels, MaxModels))

\* manifests of up to MaxResolveModels models with up to MaxEntities entities each
InitResolve == PairingInit(SeqUpTo(ResolveModels, MaxResolveModels))

NextPairing == PairingStep \/ PairingReturn

SpecPairing == InitPairing /\ [][NextPairing]_vars

SpecResolve == InitResolve /\ [][NextPairing]_vars

----------------------------------------------------------------------------
(* Claims about PrimaryEntityDimensionPairs.                                *)

PairingDone == pc = "pairing_done"

ModelIndexes == 1..Len(semantic_models)

Resolved(i) == ResolvePrimaryEntity(semantic_models[i])

DimensionSet(i) ==
    {semantic_models[i].dimensions[k] : k \in 1..Len(semantic_models[i].dimensions)}

\* model i declares each of its dimension names once
DeclaresOnce(i) ==
    Cardinality(DimensionSet(i)) = Len(semantic_models[i].dimensions)

\* model j pairs dimension d with primary entity pe
Pairs(j, pe, d) == Resolved(j) = pe /\ d \in DimensionSet(j)

\* some dimension name is declared under the same resolved primary entity in
\* two different positions of semantic_models
CrossModelDuplicate ==
    \E i, j \in ModelIndexes :
        /\ i # j
        /\ Resolved(i) # None
        /\ \E d \in DimensionSet(i) : Pairs(j, Resolved(i), d)

\* C1: when validate_manifest has returned, it returned at least one
\* duplicate-pairing error if and only if some dimension name is declared under
\* the same resolved primary entity in more than one semantic model.
C1_ErrorIffCrossModelDuplicate ==
    PairingDone => ((issues # <<>>) <=> CrossModelDuplicate)

\* the first model in manifest order, before model i, that pairs pe with d
FirstOwner(i, pe, d) ==
    CHOOSE j \in 1..(i - 1) :
        Pairs(j, pe, d) /\ \A k \in 1..(j - 1) : ~Pairs(k, pe, d)

AlreadyPaired(i, d) ==
    Resolved(i) # None /\ \E j \in 1..(i - 1) : Pairs(j, Resolved(i), d)

\* the errors model i is expected to contribute, in the order of its dimensions
ExpectedPairingIssues(i) ==
    LET sm == semantic_models[i]
        hits == SelectSeq(sm.dimensions, LAMBDA d : AlreadyPaired(i, d))
    IN  [k \in 1..Len(hits) |->
            PairingError(sm, Resolved(i), hits[k],
                         semantic_models[FirstOwner(i, Resolved(i), hits[k])].name)]

RECURSIVE ExpectedPairingIssuesUpTo(_)
ExpectedPairingIssuesUpTo(n) ==
    IF n = 0 THEN <<>>
    ELSE ExpectedPairingIssuesUpTo(n - 1) \o ExpectedPairingIssues(n)

\* C2: when each model declares each of its dimension names once, the issues
\* collected after the first n models are, model by model and dimension by
\* dimension, one error per dimension already registered under the same resolved
\* primary entity, naming the current model, the primary entity, the dimension and
\* the first model that registered the pair; the registry keeps that first model.
\* Two models A then B with the same primary entity and one shared dimension
\* yield exactly one error, raised on B and citing A.
C2_OneErrorPerRegisteredDimension ==
    (pc \in {"pairing", "pairing_done"} /\ \A i \in ModelIndexes : DeclaresOnce(i)) =>
        /\ issues = ExpectedPairingIssuesUpTo(idx - 1)
        /\ \A pe \in DOMAIN known_pairings : \A d \in DOMAIN known_pairings[pe] :
               known_pairings[pe][d] = semantic_models[FirstOwner(idx, pe, d)].name
        /\ (/\ PairingDone
            /\ Len(semantic_models) = 2
            /\ Resolved(1) # None
            /\ Resolved(1) = Resolved(2)
            /\ Cardinality(DimensionSet(1) \cap DimensionSet(2)) = 1)
           => /\ Len(issues) = 1
              /\ issues[1].semantic_model = semantic_models[2].name
              /\ issues[1].in_use_on = semantic_models[1].name
              /\ issues[1].element_name \in DimensionSet(1) \cap DimensionSet(2)

\* two models of host declare created_at and country in opposite orders: two
\* errors on the second, in its order, citing the first, which keeps the registry
C2_Witness ==
    /\ PairingDone
    /\ Len(semantic_models) = 2
    /\ \A i \in ModelIndexes : Resolved(i) = "host"
    /\ semantic_models[1].name # semantic_models[2].name
    /\ semantic_models[1].dimensions = <<"created_at", "country">>
    /\ semantic_models[2].dimensions = <<"country", "created_at">>
    /\ Len(issues) = 2
    /\ issues[1].element_name = "country"
    /\ issues[2].element_name = "created_at"
    /\ issues[2].in_use_on = semantic_models[1].name
    /\ known_pairings["host"]["created_at"] = semantic_models[1].name

NoSharedPrimaryEntity ==
    \A i, j \in ModelIndexes :
        (i # j /\ Resolved(i) # None) => Resolved(i) # Resolved(j)

\* C3: in a manifest in which no two semantic models resolve to the same primary
\* entity, the pairing rule collects no error, whatever dimension names the
\* models share.
C3_NoCrossPrimaryEntityConflict ==
    (pc \in {"pairing", "pairing_done"} /\ NoSharedPrimaryEntity) => issues = <<>>

\* host and guest models share created_at, one of them declares it twice
C3_Witness ==
    /\ PairingDone
    /\ NoSharedPrimaryEntity
    /\ \E i, j \in ModelIndexes :
           /\ Resolved(i) = "host"
           /\ Resolved(j) = "guest"
           /\ semantic_models[i].dimensions = <<"created_at">>
           /\ semantic_models[j].dimensions = <<"created_at", "created_at">>
    /\ issues = <<>>

\* _check_semantic_model without the `safe` bypass: the lookup is always performed
CheckSemanticModelAlwaysLookup(semantic_model, kp) ==
    LET pe == ResolvePrimaryEntity(semantic_model) IN
    IF pe = None THEN [known_pairings |-> kp, issues |-> <<>>]
    ELSE LET kp0 == IF DictGetIsNone(kp, pe) THEN DictSet(kp, pe, EmptyDict) ELSE kp
         IN  CheckDimensions([known_pairings |-> kp0, issues |-> <<>>],
                             semantic_model, pe, FALSE, 1)

\* C9: for the model about to be checked and the registry built so far,
\* _check_semantic_model returns the same issues and leaves the same registry as
\* the variant that always performs the lookup before registering.
C9_SafeBypassInvisible ==
    (pc = "pairing" /\ idx <= Len(semantic_models)) =>
        _check_semantic_model(semantic_models[idx], known_pairings)
            = CheckSemanticModelAlwaysLookup(semantic_models[idx], known_pairings)

PrimaryEntityIndexes(semantic_model) ==
    {i \in 1..Len(semantic_model.entities) : semantic_model.entities[i].type = "PRIMARY"}

MinOf(S) == CHOOSE m \in S : \A n \in S : m <= n

\* the call on semantic_models[idx] used pe as the primary entity
UsedAsPrimaryEntity(pe) ==
    LET sm == semantic_models[idx] IN
    /\ primary_entity' = pe
    /\ pe \in DOMAIN known_pairings'
    /\ \A k \in 1..Len(sm.dimensions) : sm.dimensions[k] \in DOMAIN known_pairings'[pe]
    /\ \A e \in (DOMAIN known_pairings') \ {pe} :
           e \in DOMAIN known_pairings /\ known_pairings'[e] = known_pairings[e]
    /\ \A k \in (Len(issues) + 1)..Len(issues') : issues'[k].primary_entity = pe

\* C10: each _check_semantic_model call uses the model's declared primary_entity
\* when present; otherwise the name of its first entity of type PRIMARY; and when
\* neither exists it returns no issues and leaves the registry unchanged.
C10_PrimaryEntityResolution ==
    [][(pc = "pairing" /\ idx' = idx + 1) =>
         LET sm == semantic_models[idx]
             prim == PrimaryEntityIndexes(sm)
         IN  /\ sm.primary_entity # None => UsedAsPrimaryEntity(sm.primary_entity)
             /\ (sm.primary_entity = None /\ prim # {}) =>
                    UsedAsPrimaryEntity(sm.entities[MinOf(prim)].name)
             /\ (sm.primary_entity = None /\ prim = {}) =>
                    /\ primary_entity' = None
                    /\ issues' = issues
                    /\ known_pairings' = known_pairings]_vars

\* a model without primary entity is skipped although it declares created_at; the
\* next one declares guest, has a PRIMARY entity host, and raises nothing
C10_Witness ==
    /\ PairingDone
    /\ Len(semantic_models) = 2
    /\ semantic_models[1].primary_entity = None
    /\ semantic_models[1].entities = <<[name |-> "guest", type |-> "FOREIGN"]>>
    /\ semantic_models[2].primary_entity = "guest"
    /\ semantic_models[2].entities = <<[name |-> "host", type |-> "PRIMARY"]>>
    /\ known_pairings = [e \in {"guest"} |-> [d \in {"created_at"} |-> "listings"]]
    /\ issues = <<>>

\* the second model has no declared primary entity and two PRIMARY entities; the
\* first of them, guest, collides with the first model's declared guest
C10_WitnessFirstPrimary ==
    /\ PairingDone
    /\ Len(semantic_models) = 2
    /\ semantic_models[1].primary_entity = "guest"
    /\ semantic_models[2].primary_entity = None
    /\ semantic_models[2].entities = <<[name |-> "guest", type |-> "PRIMARY"],
                                       [name |-> "host", type |-> "PRIMARY"]>>
    /\ Len(issues) = 1
    /\ issues[1].primary_entity = "guest"

----------------------------------------------------------------------------
(* UniqueAndValidNameRule.check_valid_name                                  *)
(* A name is the sequence of its characters.                                *)

MaxNameLen == 4       \* length of the names enumerated over NameAlphabet

LowerLetters == <<"a", "b", "c", "d", "e", "f", "g", "h", "i", "j", "k", "l", "m", "n", "o", "p", "q", "r", "s", "t", "u", "v", "w", "x", "y", "z">>
UpperLetters == <<"A", "B", "C", "D", "E", "F", "G", "H", "I", "J", "K", "L", "M", "N", "O", "P", "Q", "R", "S", "T", "U", "V", "W", "X", "Y", "Z">>
Digits == {"0", "1", "2", "3", "4", "5", "6", "7", "8", "9"}

IsLower(c) == \E i \in 1..Len(LowerLetters) : LowerLetters[i] = c
IsUpper(c) == \E i \in 1..Len(UpperLetters) : UpperLetters[i] = c
LetterIndex(letters, c) == CHOOSE i \in 1..Len(letters) : letters[i] = c

\* str.upper() and str.lower(), on ASCII
CharUpper(c) == IF IsLower(c) THEN UpperLetters[LetterIndex(LowerLetters, c)] ELSE c
CharLower(c) == IF IsUpper(c) THEN LowerLetters[LetterIndex(UpperLetters, c)] ELSE c
StrUpper(str) == [i \in 1..Len(str) |-> CharUpper(str[i])]
StrLower(str) == [i \in 1..Len(str) |-> CharLower(str[i])]

\* MetricFlowReservedKeywords
METRIC_TIME == <<"m", "e", "t", "r", "i", "c", "_", "t", "i", "m", "e">>
MF_INTERNAL_UUID == <<"m", "f", "_", "i", "n", "t", "e", "r", "n", "a", "l", "_", "u", "u", "i", "d">>
MetricFlowReservedKeywords == {METRIC_TIME, MF_INTERNAL_UUID}

get_reserved_reason(keyword) ==
    IF keyword = METRIC_TIME
    THEN "Used as the query input for creating time series metrics"
    ELSE "Used internally to reference a column that has a uuid"

\* TimeGranularity.list_names()
TimeGranularityNames ==
    {<<"N", "A", "N", "O", "S", "E", "C", "O", "N", "D">>,
     <<"M", "I", "C", "R", "O", "S", "E", "C", "O", "N", "D">>,
     <<"M", "I", "L", "L", "I", "S", "E", "C", "O", "N", "D">>,
     <<"S", "E", "C", "O", "N", "D">>,
     <<"M", "I", "N", "U", "T", "E">>,
     <<"H", "O", "U", "R">>,
     <<"D", "A", "Y">>,
     <<"W", "E", "E", "K">>,
     <<"M", "O", "N", "T", "H">>,
     <<"Q", "U", "A", "R", "T", "E", "R">>,
     <<"Y", "E", "A", "R">>}

\* (?!__) at position i: the text from i on does not start with two underscores
NotDunderAt(str, i) == ~(i + 1 <= Len(str) /\ str[i] = "_" /\ str[i + 1] = "_")

\* ((?!__)[a-z0-9_])*[a-z0-9]\Z matched from position i on: either the last
\* character class and the end of the string, or one more repetition
RECURSIVE RegexBodyAndEnd(_, _)
RegexBodyAndEnd(str, i) ==
    \/ /\ i = Len(str)
       /\ (IsLower(str[i]) \/ str[i] \in Digits)
    \/ /\ i <= Len(str)
       /\ NotDunderAt(str, i)
       /\ (IsLower(str[i]) \/ str[i] \in Digits \/ str[i] = "_")
       /\ RegexBodyAndEnd(str, i + 1)

\* a plausible slip: the pattern without the (?!__) lookahead
RECURSIVE RegexBodyAndEndNoLookahead(_, _)
RegexBodyAndEndNoLookahead(str, i) ==
    \/ /\ i = Len(str)
       /\ (IsLower(str[i]) \/ str[i] \in Digits)
    \/ /\ i <= Len(str)
       /\ (IsLower(str[i]) \/ str[i] \in Digits \/ str[i] = "_")
       /\ RegexBodyAndEndNoLookahead(str, i + 1)

NameRegexNoLookahead(str) ==
    /\ Len(str) >= 1
    /\ IsLower(str[1])
    /\ RegexBodyAndEndNoLookahead(str, 2)

\* NAME_REGEX.match(name): \A[a-z]((?!__)[a-z0-9_])*[a-z0-9]\Z
NAME_REGEX(str) ==
    /\ Len(str) >= 1
    /\ IsLower(str[1])
    /\ RegexBodyAndEnd(str, 2)

NameIssue(kind, str, context) == [kind |-> kind, name |-> str, context |-> context]

\* a plausible slip: elif instead of if, so the first finding hides the others
check_valid_name_first_only(str, context) ==
    IF ~NAME_REGEX(str) THEN <<NameIssue("invalid_syntax", str, context)>>
    ELSE IF StrUpper(str) \in TimeGranularityNames
         THEN <<NameIssue("time_granularity_keyword", str, context)>>
    ELSE IF StrLower(str) \in MetricFlowReservedKeywords
         THEN <<[kind |-> "reserved_keyword", name |-> str, context |-> context,
                 reason |-> get_reserved_reason(StrLower(str))]>>
    ELSE <<>>

check_valid_name(str, context) ==
    LET syntax == IF ~NAME_REGEX(str)
                  THEN <<NameIssue("invalid_syntax", str, context)>> ELSE <<>>
        granularity == IF StrUpper(str) \in TimeGranularityNames
                       THEN <<NameIssue("time_granularity_keyword", str, context)>>
                       ELSE <<>>
        reserved == IF StrLower(str) \in MetricFlowReservedKeywords
                    THEN <<[kind |-> "reserved_keyword", name |-> str, context |-> context,
                            reason |-> get_reserved_reason(StrLower(str))]>>
                    ELSE <<>>
    IN  syntax \o granularity \o reserved

\* the call check_valid_name(name) and its return
CheckValidName ==
    /\ pc = "name"
    /\ issues' = check_valid_name(name, None)
    /\ pc' = "name_done"
    /\ UNCHANGED <<semantic_models, metrics, name, idx, known_pairings,
                   primary_entity, rules, manifest, received>>

\* one character of each class: lower case, upper case, digit, underscore, other
NameAlphabet == {"a", "A", "1", "_", "-"}

Capitalize(str) == [i \in 1..Len(str) |-> IF i = 1 THEN CharUpper(str[i]) ELSE str[i]]

\* the keywords in lower, upper and mixed case, and near misses of them
KeywordProbes ==
    UNION {{StrLower(w), StrUpper(w), Capitalize(StrLower(w)),
            Append(StrLower(w), "s"), <<"_">> \o StrLower(w)} :
           w \in TimeGranularityNames \cup MetricFlowReservedKeywords}

Names == SeqUpTo(NameAlphabet, MaxNameLen) \cup KeywordProbes

InitName ==
    /\ name \in Names
    /\ semantic_models = <<>>
    /\ metrics = <<>>
    /\ pc = "name"
    /\ idx = 1
    /\ known_pairings = EmptyDict
    /\ primary_entity = None
    /\ issues = <<>>
    /\ rules = <<>>
    /\ manifest = None
    /\ received = <<>>

NextName == CheckValidName

SpecName == InitName /\ [][NextName]_vars

----------------------------------------------------------------------------
(* Claims about check_valid_name.                                           *)

\* the name pattern as the documentation words it
FailsNamePattern(str) ==
    ~(/\ Len(str) >= 2
      /\ IsLower(str[1])
      /\ (IsLower(str[Len(str)]) \/ str[Len(str)] \in Digits)
      /\ \A i \in 2..(Len(str) - 1) :
             IsLower(str[i]) \/ str[i] \in Digits \/ str[i] = "_"
      /\ \A i \in 1..(Len(str) - 1) : ~(str[i] = "_" /\ str[i + 1] = "_"))

SameIgnoringCase(a, b) ==
    /\ Len(a) = Len(b)
    /\ \A i \in 1..Len(a) : CharLower(a[i]) = CharLower(b[i])

IsGranularityKeyword(str) == \E w \in TimeGranularityNames : SameIgnoringCase(str, w)
IsReservedKeyword(str) == \E w \in MetricFlowReservedKeywords : SameIgnoringCase(str, w)

\* the kinds of issue expected for a name, in order
ExpectedNameIssueKinds(str) ==
    (IF FailsNamePattern(str) THEN <<"invalid_syntax">> ELSE <<>>)
    \o (IF IsGranularityKeyword(str) THEN <<"time_granularity_keyword">> ELSE <<>>)
    \o (IF IsReservedKeyword(str) THEN <<"reserved_keyword">> ELSE <<>>)

\* C6: check_valid_name returns, in this order, one syntax issue iff the name
\* fails the name pattern, one issue iff it equals a time-granularity keyword
\* ignoring case, and one issue iff it equals a reserved keyword ignoring case;
\* each issue carries the name and the context; the list is empty exactly for
\* pattern-matching names that are not keywords.
C6_ChecksIndependentAndAdditive ==
    pc = "name_done" =>
        /\ [i \in 1..Len(issues) |-> issues[i].kind] = ExpectedNameIssueKinds(name)
        /\ \A i \in 1..Len(issues) : issues[i].name = name /\ issues[i].context = None
        /\ (issues = <<>>) <=>
               (~FailsNamePattern(name) /\ ~IsGranularityKeyword(name)
                /\ ~IsReservedKeyword(name))

\* an upper-case granularity keyword fails the pattern and is a keyword: two issues
C6_Witness ==
    /\ pc = "name_done"
    /\ name = <<"D", "A", "Y">>
    /\ Len(issues) = 2
    /\ issues[1].kind = "invalid_syntax"
    /\ issues[2].kind = "time_granularity_keyword"

----------------------------------------------------------------------------
(* UniqueAndValidNameRule._validate_semantic_model_elements                 *)

MaxElements == 2      \* measures, entities and dimensions of the validated model

\* an element's reference: compared and hashed by the element name
ElementReference(element_name) == element_name

SemanticModelElementContext(semantic_model, element_name, element_type) ==
    [file_context |-> semantic_model.metadata,
     semantic_model |-> semantic_model.name,
     element_name |-> element_name,
     element_type |-> element_type]

\* element_info_tuples: measures, then entities, then dimensions
element_info_tuples(semantic_model) ==
    LET sm == semantic_model IN
    [i \in 1..Len(sm.measures) |->
        [name |-> ElementReference(sm.measures[i]), type |-> "measure",
         context |-> SemanticModelElementContext(sm, sm.measures[i], "MEASURE")]]
    \o [i \in 1..Len(sm.entities) |->
        [name |-> ElementReference(sm.entities[i].name), type |-> "entity",
         context |-> SemanticModelElementContext(sm, sm.entities[i].name, "ENTITY")]]
    \o [i \in 1..Len(sm.dimensions) |->
        [name |-> ElementReference(sm.dimensions[i]), type |-> "dimension",
         context |-> SemanticModelElementContext(sm, sm.dimensions[i], "DIMENSION")]]

DuplicateElementError(semantic_model, tuple, used_for) ==
    [kind |-> "duplicate_element",
     context |-> tuple.context,
     semantic_model |-> semantic_model.name,
     name |-> tuple.name,
     type |-> tuple.type,
     used_for |-> used_for]

\* a plausible slip: a repeat also overwrites name_to_type, so the last kind wins
RecordOrReportLastWins(acc, semantic_model, tuple) ==
    IF tuple.name \in DOMAIN acc.name_to_type
    THEN [name_to_type |-> DictSet(acc.name_to_type, tuple.name, tuple.type),
          issues |-> Append(acc.issues,
              DuplicateElementError(semantic_model, tuple, acc.name_to_type[tuple.name]))]
    ELSE [name_to_type |-> DictSet(acc.name_to_type, tuple.name, tuple.type),
          issues |-> acc.issues]

\* the body of the loop over element_info_tuples that fills name_to_type
RecordOrReport(acc, semantic_model, tuple) ==
    IF tuple.name \in DOMAIN acc.name_to_type
    THEN [name_to_type |-> acc.name_to_type,
          issues |-> Append(acc.issues,
              DuplicateElementError(semantic_model, tuple, acc.name_to_type[tuple.name]))]
    ELSE [name_to_type |-> DictSet(acc.name_to_type, tuple.name, tuple.type),
          issues |-> acc.issues]

RECURSIVE DuplicateLoop(_, _, _, _)
DuplicateLoop(acc, semantic_model, tuples, i) ==
    IF i > Len(tuples) THEN acc
    ELSE DuplicateLoop(RecordOrReport(acc, semantic_model, tuples[i]),
                       semantic_model, tuples, i + 1)

\* for name, _, context in element_info_tuples: issues += check_valid_name(...)
RECURSIVE ValidNameLoop(_, _)
ValidNameLoop(tuples, i) ==
    IF i > Len(tuples) THEN <<>>
    ELSE check_valid_name(tuples[i].name, tuples[i].context) \o ValidNameLoop(tuples, i + 1)

\* a plausible slip: the name validator runs in the else branch of the duplicate
\* loop's test, so only the first occurrence of each name is validated
RECURSIVE ValidNameLoopFirstOccurrences(_, _, _)
ValidNameLoopFirstOccurrences(tuples, i, seen) ==
    IF i > Len(tuples) THEN <<>>
    ELSE (IF tuples[i].name \in seen THEN <<>>
          ELSE check_valid_name(tuples[i].name, tuples[i].context))
         \o ValidNameLoopFirstOccurrences(tuples, i + 1, seen \cup {tuples[i].name})

ValidateElementsFirstOccurrencesOnly(semantic_model) ==
    LET tuples == element_info_tuples(semantic_model) IN
    DuplicateLoop([name_to_type |-> EmptyDict, issues |-> <<>>],
                  semantic_model, tuples, 1).issues
    \o ValidNameLoopFirstOccurrences(tuples, 1, {})

_validate_semantic_model_elements(semantic_model) ==
    LET tuples == element_info_tuples(semantic_model) IN
    DuplicateLoop([name_to_type |-> EmptyDict, issues |-> <<>>],
                  semantic_model, tuples, 1).issues
    \o ValidNameLoop(tuples, 1)

\* the call _validate_semantic_model_elements(semantic_models[idx]) and its return
ValidateSemanticModelElements ==
    /\ pc = "elements"
    /\ issues' = _validate_semantic_model_elements(semantic_models[idx])
    /\ pc' = "elements_done"
    /\ UNCHANGED <<semantic_models, metrics, name, idx, known_pairings,
                   primary_entity, rules, manifest, received>>

\* names given to elements and top-level objects: x fails the pattern, id is
\* valid, day is a time granularity keyword
NamePool == {<<"x">>, <<"i", "d">>, <<"d", "a", "y">>}

Metadata == {"models.yml", "more.yml"}

ElementModels ==
    [name : {<<"o", "r", "d", "e", "r", "s">>},
     metadata : {"models.yml"},
     measures : SeqUpTo(NamePool, MaxElements),
     entities : SeqUpTo([name : NamePool, type : {"FOREIGN"}], MaxElements),
     dimensions : SeqUpTo(NamePool, MaxElements)]

InitElements ==
    /\ semantic_models \in [1..1 -> ElementModels]
    /\ metrics = <<>>
    /\ name = <<>>
    /\ pc = "elements"
    /\ idx = 1
    /\ known_pairings = EmptyDict
    /\ primary_entity = None
    /\ issues = <<>>
    /\ rules = <<>>
    /\ manifest = None
    /\ received = <<>>

NextElements == ValidateSemanticModelElements

SpecElements == InitElements /\ [][NextElements]_vars

----------------------------------------------------------------------------
(* Claims about _validate_semantic_model_elements.                          *)

DuplicateElementErrors == SelectSeq(issues, LAMBDA e : e.kind = "duplicate_element")

\* the p-th element in the order measures, entities, dimensions
ElementCount(sm) == Len(sm.measures) + Len(sm.entities) + Len(sm.dimensions)

ElementNameAt(sm, p) ==
    IF p <= Len(sm.measures) THEN sm.measures[p]
    ELSE IF p <= Len(sm.measures) + Len(sm.entities)
         THEN sm.entities[p - Len(sm.measures)].name
    ELSE sm.dimensions[p - Len(sm.measures) - Len(sm.entities)]

ElementKindAt(sm, p) ==
    IF p <= Len(sm.measures) THEN "measure"
    ELSE IF p <= Len(sm.measures) + Len(sm.entities) THEN "entity"
    ELSE "dimension"

ElementTypeOfKind(kind) ==
    IF kind = "measure" THEN "MEASURE" ELSE IF kind = "entity" THEN "ENTITY" ELSE "DIMENSION"

FirstOccurrence(sm, p) ==
    CHOOSE q \in 1..p :
        /\ ElementNameAt(sm, q) = ElementNameAt(sm, p)
        /\ \A r \in 1..(q - 1) : ElementNameAt(sm, r) # ElementNameAt(sm, p)

\* the duplicate errors expected of the first p elements
RECURSIVE ExpectedDuplicateElementErrors(_, _)
ExpectedDuplicateElementErrors(sm, p) ==
    IF p = 0 THEN <<>>
    ELSE ExpectedDuplicateElementErrors(sm, p - 1)
         \o (IF FirstOccurrence(sm, p) = p THEN <<>>
             ELSE <<[kind |-> "duplicate_element",
                     context |-> [file_context |-> sm.metadata,
                                  semantic_model |-> sm.name,
                                  element_name |-> ElementNameAt(sm, p),
                                  element_type |-> ElementTypeOfKind(ElementKindAt(sm, p))],
                     semantic_model |-> sm.name,
                     name |-> ElementNameAt(sm, p),
                     type |-> ElementKindAt(sm, p),
                     used_for |-> ElementKindAt(sm, FirstOccurrence(sm, p))]>>)

\* C4: the duplicate errors returned for a model are, in the order measures,
\* entities, dimensions, exactly one error per element whose name occurred
\* earlier in that order, reporting its own kind and the kind of the first
\* occurrence of the name; a first occurrence produces none. A measure x and a
\* dimension x yield exactly one duplicate error, on the dimension, citing the
\* measure.
C4_FirstDeclaredWins ==
    pc = "elements_done" =>
        LET sm == semantic_models[idx] IN
        /\ DuplicateElementErrors = ExpectedDuplicateElementErrors(sm, ElementCount(sm))
        /\ (sm.measures = <<<<"x">>>> /\ sm.entities = <<>> /\ sm.dimensions = <<<<"x">>>>)
           => /\ Len(DuplicateElementErrors) = 1
              /\ DuplicateElementErrors[1].type = "dimension"
              /\ DuplicateElementErrors[1].used_for = "measure"
              /\ DuplicateElementErrors[1].context.element_type = "DIMENSION"

\* measure x, entity x, dimension x: both later ones cite the measure
C4_Witness ==
    /\ pc = "elements_done"
    /\ semantic_models[idx].measures = <<<<"x">>>>
    /\ semantic_models[idx].entities = <<[name |-> <<"x">>, type |-> "FOREIGN"]>>
    /\ semantic_models[idx].dimensions = <<<<"x">>>>
    /\ Len(DuplicateElementErrors) = 2
    /\ DuplicateElementErrors[1].type = "entity"
    /\ DuplicateElementErrors[2].type = "dimension"
    /\ DuplicateElementErrors[2].used_for = "measure"

\* the issues after the duplicate errors
NameValidityIssues ==
    SubSeq(issues, Len(DuplicateElementErrors) + 1, Len(issues))

\* what identifies a validity issue: its kind, the name and the element it is about
IssueKey(issue) == [kind |-> issue.kind, name |-> issue.name, context |-> issue.context]

\* the validity issues expected of the p-th element occurrence
ExpectedOccurrenceIssues(sm, p) ==
    LET str == ElementNameAt(sm, p)
        kinds == ExpectedNameIssueKinds(str)
    IN  [k \in 1..Len(kinds) |->
            [kind |-> kinds[k],
             name |-> str,
             context |-> [file_context |-> sm.metadata,
                          semantic_model |-> sm.name,
                          element_name |-> str,
                          element_type |-> ElementTypeOfKind(ElementKindAt(sm, p))]]]

\* the validity issues expected of the first p element occurrences
RECURSIVE ExpectedValidityIssues(_, _)
ExpectedValidityIssues(sm, p) ==
    IF p = 0 THEN <<>>
    ELSE ExpectedValidityIssues(sm, p - 1) \o ExpectedOccurrenceIssues(sm, p)

Occurrences(sm, str) == {p \in 1..ElementCount(sm) : ElementNameAt(sm, p) = str}

\* C11: the issues returned for a model are all its duplicate errors followed
\* by the check_valid_name issues of every element occurrence in the order
\* measures, entities, dimensions, occurrences already reported as duplicates
\* included; a name declared k times contributes its validity issues k times.
C11_NameErrorsRegardlessOfDuplication ==
    pc = "elements_done" =>
        LET sm == semantic_models[idx]
            d == Len(DuplicateElementErrors)
        IN  /\ \A i \in 1..Len(issues) : (issues[i].kind = "duplicate_element") <=> (i <= d)
            /\ [i \in 1..Len(NameValidityIssues) |-> IssueKey(NameValidityIssues[i])]
                   = ExpectedValidityIssues(sm, ElementCount(sm))
            /\ \A str \in NamePool :
                   Cardinality({i \in 1..Len(NameValidityIssues) :
                                    NameValidityIssues[i].name = str})
                       = Cardinality(Occurrences(sm, str)) * Len(ExpectedNameIssueKinds(str))

\* measure x and dimension x: one duplicate error, then the syntax issue of x
\* twice, once for the measure and once for the dimension reported as duplicate
C11_Witness ==
    /\ pc = "elements_done"
    /\ semantic_models[idx].measures = <<<<"x">>>>
    /\ semantic_models[idx].entities = <<>>
    /\ semantic_models[idx].dimensions = <<<<"x">>>>
    /\ Len(issues) = 3
    /\ issues[1].kind = "duplicate_element"
    /\ issues[2].kind = "invalid_syntax" /\ issues[2].context.element_type = "MEASURE"
    /\ issues[3].kind = "invalid_syntax" /\ issues[3].context.element_type = "DIMENSION"

----------------------------------------------------------------------------
(* UniqueAndValidNameRule._validate_top_level_objects                       *)

MaxTopLevel == 3      \* semantic models, and metrics, of the validated manifest

SemanticModelContext(semantic_model) ==
    [file_context |-> semantic_model.metadata, semantic_model |-> semantic_model.name]

MetricContext(metric) ==
    [file_context |-> metric.metadata, metric |-> metric.name]

\* the first loop: object_info_tuples
object_info_tuples(models) ==
    [i \in 1..Len(models) |->
        [name |-> models[i].name, type |-> "semantic model",
         context |-> SemanticModelContext(models[i])]]

\* the first loop: issues += check_valid_name(semantic_model.name, context)
RECURSIVE ModelNameIssues(_, _)
ModelNameIssues(models, i) ==
    IF i > Len(models) THEN <<>>
    ELSE check_valid_name(models[i].name, SemanticModelContext(models[i]))
         \o ModelNameIssues(models, i + 1)

DuplicateTopLevelError(context, object_name, type, used_for) ==
    [kind |-> "duplicate_top_level",
     context |-> context,
     name |-> object_name,
     type |-> type,
     used_for |-> used_for]

\* for name, type_, context in object_info_tuples
RECURSIVE TopLevelDuplicateLoop(_, _, _)
TopLevelDuplicateLoop(tuples, i, name_to_type) ==
    IF i > Len(tuples) THEN <<>>
    ELSE LET t == tuples[i] IN
         IF t.name \in DOMAIN name_to_type
         THEN <<DuplicateTopLevelError(t.context, t.name, t.type, name_to_type[t.name])>>
              \o TopLevelDuplicateLoop(tuples, i + 1, name_to_type)
         ELSE TopLevelDuplicateLoop(tuples, i + 1, DictSet(name_to_type, t.name, t.type))

\* for metric in semantic_manifest.metrics
RECURSIVE MetricLoop(_, _, _)
MetricLoop(mets, i, metric_names) ==
    IF i > Len(mets) THEN <<>>
    ELSE LET metric == mets[i]
             metric_context == MetricContext(metric)
         IN  check_valid_name(metric.name, metric_context)
             \o (IF metric.name \in metric_names
                 THEN <<DuplicateTopLevelError(metric_context, metric.name,
                                               "metric", "metric")>>
                      \o MetricLoop(mets, i + 1, metric_names)
                 ELSE MetricLoop(mets, i + 1, metric_names \cup {metric.name}))

\* a plausible slip: the metrics are checked against the semantic model names too
ValidateTopLevelOneNamespace(models, mets) ==
    ModelNameIssues(models, 1)
    \o TopLevelDuplicateLoop(object_info_tuples(models), 1, EmptyDict)
    \o MetricLoop(mets, 1, {models[i].name : i \in 1..Len(models)})

_validate_top_level_objects(models, mets) ==
    ModelNameIssues(models, 1)
    \o TopLevelDuplicateLoop(object_info_tuples(models), 1, EmptyDict)
    \o MetricLoop(mets, 1, {})

\* the call _validate_top_level_objects(semantic_manifest) and its return
ValidateTopLevelObjects ==
    /\ pc = "top_level"
    /\ issues' = _validate_top_level_objects(semantic_models, metrics)
    /\ pc' = "top_level_done"
    /\ UNCHANGED <<semantic_models, metrics, name, idx, known_pairings,
                   primary_entity, rules, manifest, received>>

TopLevelNames == {<<"i", "d">>, <<"d", "a", "y">>}

TopLevelObjects == [name : TopLevelNames, metadata : Metadata]

InitTopLevel ==
    /\ semantic_models \in SeqUpTo(TopLevelObjects, MaxTopLevel)
    /\ metrics \in SeqUpTo(TopLevelObjects, MaxTopLevel)
    /\ name = <<>>
    /\ pc = "top_level"
    /\ idx = 1
    /\ known_pairings = EmptyDict
    /\ primary_entity = None
    /\ issues = <<>>
    /\ rules = <<>>
    /\ manifest = None
    /\ received = <<>>

NextTopLevel == ValidateTopLevelObjects

SpecTopLevel == InitTopLevel /\ [][NextTopLevel]_vars

----------------------------------------------------------------------------
(* Claims about _validate_top_level_objects.                                *)

DuplicateTopLevelErrors == SelectSeq(issues, LAMBDA e : e.kind = "duplicate_top_level")

NamedEarlier(objects, p) == \E q \in 1..(p - 1) : objects[q].name = objects[p].name

\* one error per object among the first p whose name an earlier object of the
\* same sequence has, carrying the context of the later occurrence
RECURSIVE ExpectedTopLevelErrors(_, _, _)
ExpectedTopLevelErrors(objects, type, p) ==
    IF p = 0 THEN <<>>
    ELSE ExpectedTopLevelErrors(objects, type, p - 1)
         \o (IF ~NamedEarlier(objects, p) THEN <<>>
             ELSE <<[kind |-> "duplicate_top_level",
                     context |-> IF type = "metric"
                                 THEN [file_context |-> objects[p].metadata,
                                       metric |-> objects[p].name]
                                 ELSE [file_context |-> objects[p].metadata,
                                       semantic_model |-> objects[p].name],
                     name |-> objects[p].name,
                     type |-> type,
                     used_for |-> type]>>)

\* C5: the duplicate errors of _validate_top_level_objects are exactly one per
\* semantic model named like an earlier semantic model, followed by one per
\* metric named like an earlier metric, each with the context of the later
\* occurrence; a semantic model and a metric sharing a name produce none. Two
\* semantic models with the same name yield exactly one duplicate error, citing
\* the second.
C5_DisjointTopLevelNamespaces ==
    pc = "top_level_done" =>
        /\ DuplicateTopLevelErrors =
               ExpectedTopLevelErrors(semantic_models, "semantic model", Len(semantic_models))
               \o ExpectedTopLevelErrors(metrics, "metric", Len(metrics))
        /\ (/\ \A p \in 1..Len(semantic_models) : ~NamedEarlier(semantic_models, p)
            /\ \A p \in 1..Len(metrics) : ~NamedEarlier(metrics, p))
           => DuplicateTopLevelErrors = <<>>
        /\ (/\ Len(semantic_models) = 2
            /\ semantic_models[1].name = semantic_models[2].name
            /\ metrics = <<>>)
           => /\ Len(DuplicateTopLevelErrors) = 1
              /\ DuplicateTopLevelErrors[1].context = SemanticModelContext(semantic_models[2])

\* two semantic models and a metric, all named id, in different files: one error,
\* on the second semantic model
C5_Witness ==
    /\ pc = "top_level_done"
    /\ semantic_models = <<[name |-> <<"i", "d">>, metadata |-> "models.yml"],
                           [name |-> <<"i", "d">>, metadata |-> "more.yml"]>>
    /\ metrics = <<[name |-> <<"i", "d">>, metadata |-> "models.yml"]>>
    /\ Len(DuplicateTopLevelErrors) = 1
    /\ DuplicateTopLevelErrors[1].context.file_context = "more.yml"
    /\ DuplicateTopLevelErrors[1].type = "semantic model"

----------------------------------------------------------------------------
(* The transform rule engine and its rules.                                 *)

MaxPhases == 2            \* phases of ordered_rule_sequences
MaxPhaseRules == 2        \* rules of a phase
MaxTransformModels == 2   \* semantic models of the transformed manifest
MaxMetrics == 2           \* metrics of the transformed manifest

\* TimeGranularity values, finest first
GranularityOrder == <<"DAY", "MONTH", "YEAR">>

GranularityRank(g) == CHOOSE i \in 1..Len(GranularityOrder) : GranularityOrder[i] = g

Coarsest(gs) == CHOOSE g \in gs : \A h \in gs : GranularityRank(h) <= GranularityRank(g)

\* semantic_model.name[:n]
SliceName(str, n) == SubSeq(str, 1, IF Len(str) < n THEN Len(str) ELSE n)

\* a plausible slip: an off-by-one slice, name[:2]
SliceNamesRuleOffByOne(m) ==
    [semantic_models |->
        [i \in 1..Len(m.semantic_models) |->
            [m.semantic_models[i] EXCEPT !.name = SliceName(@, 2)]],
     metrics |-> m.metrics]

\* SliceNamesRule.transform_model
SliceNamesRule(m) ==
    [semantic_models |->
        [i \in 1..Len(m.semantic_models) |->
            [m.semantic_models[i] EXCEPT !.name = SliceName(@, 3)]],
     metrics |-> m.metrics]

\* the granularity a metric gets when none is configured: the coarsest one
\* implied by its inputs, DAY when they imply none
DerivedGranularity(metric) == Coarsest(metric.input_granularities \cup {"DAY"})

\* a plausible slip: the granularity is derived for every metric, configured or not
SetMetricTimeGranularityRuleAlways(m) ==
    [semantic_models |-> m.semantic_models,
     metrics |->
        [i \in 1..Len(m.metrics) |->
            [m.metrics[i] EXCEPT !.time_granularity = DerivedGranularity(m.metrics[i])]]]

\* SetMetricTimeGranularityRule.transform_model
SetMetricTimeGranularityRule(m) ==
    [semantic_models |-> m.semantic_models,
     metrics |->
        [i \in 1..Len(m.metrics) |->
            IF m.metrics[i].time_granularity # None THEN m.metrics[i]
            ELSE [m.metrics[i] EXCEPT !.time_granularity = DerivedGranularity(m.metrics[i])]]]

\* rule.transform_model(manifest)
transform_model(rule, m) ==
    IF rule = "SliceNamesRule" THEN SliceNamesRule(m) ELSE SetMetricTimeGranularityRule(m)

\* the place of the next rule at or after rule j of phase i, phases in order and
\* the rules of a phase in order; phase Len(rs) + 1 when there is none
RECURSIVE NextSlot(_, _, _)
NextSlot(rs, i, j) ==
    IF i > Len(rs) THEN [phase |-> i, rule |-> 1]
    ELSE IF j <= Len(rs[i]) THEN [phase |-> i, rule |-> j]
    ELSE NextSlot(rs, i + 1, 1)

\* one rule application of PydanticSemanticManifestTransformer.transform
TransformApply ==
    /\ pc = "transform"
    /\ LET slot == NextSlot(rules, idx.phase, idx.rule) IN
         /\ slot.phase <= Len(rules)
         /\ manifest' = transform_model(rules[slot.phase][slot.rule], manifest)
         /\ received' = Append(received,
                [phase |-> slot.phase, position |-> slot.rule,
                 rule |-> rules[slot.phase][slot.rule],
                 received |-> manifest,
                 returned |-> transform_model(rules[slot.phase][slot.rule], manifest)])
         /\ idx' = [phase |-> slot.phase, rule |-> slot.rule + 1]
    /\ UNCHANGED <<semantic_models, metrics, name, pc, known_pairings,
                   primary_entity, issues, rules>>

\* transform returns the manifest
TransformReturn ==
    /\ pc = "transform"
    /\ NextSlot(rules, idx.phase, idx.rule).phase > Len(rules)
    /\ pc' = "transform_done"
    /\ UNCHANGED <<semantic_models, metrics, name, idx, known_pairings,
                   primary_entity, issues, rules, manifest, received>>

RuleNames == {"SliceNamesRule", "SetMetricTimeGranularityRule"}

TransformModelNames == {<<"i", "d">>, <<"o", "r", "d", "e", "r", "s">>}

TransformModels == [name : TransformModelNames]

TransformMetrics ==
    [name : {<<"b", "o", "o", "k", "i", "n", "g", "s">>},
     time_granularity : {None, "DAY", "MONTH", "YEAR"},
     input_granularities : SUBSET {"MONTH", "YEAR"}]

TransformInit(models, metricLists, plans) ==
    /\ semantic_models \in models
    /\ metrics \in metricLists
    /\ rules \in plans
    /\ manifest = [semantic_models |-> semantic_models, metrics |-> metrics]
    /\ name = <<>>
    /\ pc = "transform"
    /\ idx = [phase |-> 1, rule |-> 1]
    /\ known_pairings = EmptyDict
    /\ primary_entity = None
    /\ issues = <<>>
    /\ received = <<>>

UnsetMetric ==
    [name |-> <<"b", "o", "o", "k", "i", "n", "g", "s">>,
     time_granularity |-> None,
     input_granularities |-> {"MONTH", "YEAR"}]

ConfiguredMetric ==
    [name |-> <<"b", "o", "o", "k", "i", "n", "g", "s">>,
     time_granularity |-> "MONTH",
     input_granularities |-> {"YEAR"}]

\* any plan of up to MaxPhases phases of up to MaxPhaseRules rules, on manifests
\* of up to MaxTransformModels models with no metric or one metric
InitTransform ==
    TransformInit(SeqUpTo(TransformModels, MaxTransformModels),
                  {<<>>, <<UnsetMetric>>, <<ConfiguredMetric>>},
                  SeqUpTo(SeqUpTo(RuleNames, MaxPhaseRules), MaxPhases))

\* one phase of up to MaxPhaseRules rules, on manifests of up to MaxMetrics metrics
InitGranularity ==
    TransformInit({<<>>, <<[name |-> <<"o", "r", "d", "e", "r", "s">>]>>},
                  SeqUpTo(TransformMetrics, MaxMetrics),
                  {<<plan>> : plan \in SeqUpTo(RuleNames, MaxPhaseRules)})

NextTransform == TransformApply \/ TransformReturn

SpecTransform == InitTransform /\ [][NextTransform]_vars

SpecGranularity == InitGranularity /\ [][NextTransform]_vars

----------------------------------------------------------------------------
(* Claims about the transform engine and the default-granularity rule.      *)

TransformInput == [semantic_models |-> semantic_models, metrics |-> metrics]

\* the places <<phase, position>> of the rules of ordered_rule_sequences
RuleSlots == UNION {{<<i, j>> : j \in 1..Len(rules[i])} : i \in 1..Len(rules)}

SlotBefore(a, b) == a[1] < b[1] \/ (a[1] = b[1] /\ a[2] < b[2])

PlaceOf(k) == <<received[k].phase, received[k].position>>

\* the rule applications so far are the first rules in phase-major order, none
\* skipped or reordered, each receiving what the previous one returned
AppliedInPhaseMajorOrder ==
    /\ \A k \in 1..Len(received) :
           /\ PlaceOf(k) \in RuleSlots
           /\ received[k].rule = rules[received[k].phase][received[k].position]
           /\ Cardinality({s \in RuleSlots : SlotBefore(s, PlaceOf(k))}) = k - 1
           /\ received[k].received =
                  IF k = 1 THEN TransformInput ELSE received[k - 1].returned
    /\ manifest = IF received = <<>> THEN TransformInput
                  ELSE received[Len(received)].returned
    /\ pc = "transform_done" => Len(received) = Cardinality(RuleSlots)

SliceThenDefaultGranularity ==
    /\ pc = "transform_done"
    /\ rules = <<<<"SliceNamesRule">>, <<"SetMetricTimeGranularityRule">>>>

\* C7 as stated: the rules are applied in phase-major order, each receiving the
\* manifest the previous one returned, and the engine returns the last one's
\* manifest; after the slicing rule in phase 1 and the default-granularity rule
\* in phase 2 every model name has length 3 and every metric a time granularity.
C7_PhaseMajorOrderNamesOfLength3 ==
    pc \in {"transform", "transform_done"} =>
        /\ AppliedInPhaseMajorOrder
        /\ SliceThenDefaultGranularity =>
               /\ \A i \in 1..Len(manifest.semantic_models) :
                      Len(manifest.semantic_models[i].name) = 3
               /\ \A i \in 1..Len(manifest.metrics) :
                      manifest.metrics[i].time_granularity # None

\* new is old cut to its first three characters
FirstThreeOf(new, old) ==
    /\ Len(new) = IF Len(old) >= 3 THEN 3 ELSE Len(old)
    /\ \A k \in 1..Len(new) : new[k] = old[k]

\* C7 as amended: as above, but after the two phases every model name is its
\* first three characters: of length 3 when it had at least 3 characters, and
\* unchanged when it was shorter.
C7_PhaseMajorOrderNamesCutTo3 ==
    pc \in {"transform", "transform_done"} =>
        /\ AppliedInPhaseMajorOrder
        /\ SliceThenDefaultGranularity =>
               /\ Len(manifest.semantic_models) = Len(semantic_models)
               /\ \A i \in 1..Len(manifest.semantic_models) :
                      FirstThreeOf(manifest.semantic_models[i].name, semantic_models[i].name)
               /\ \A i \in 1..Len(manifest.metrics) :
                      manifest.metrics[i].time_granularity # None

\* slicing then default granularity, on a manifest with a long and a short model
\* name and a metric without a granularity
C7_Witness ==
    /\ SliceThenDefaultGranularity
    /\ Len(received) = 2
    /\ semantic_models = <<[name |-> <<"o", "r", "d", "e", "r", "s">>],
                           [name |-> <<"i", "d">>]>>
    /\ manifest.semantic_models = <<[name |-> <<"o", "r", "d">>], [name |-> <<"i", "d">>]>>
    /\ metrics = <<UnsetMetric>>
    /\ manifest.metrics[1].time_granularity = "YEAR"

GranularityRuns == {k \in 1..Len(received) : received[k].rule = "SetMetricTimeGranularityRule"}

\* C8: every run of the default-granularity rule returns a manifest in which
\* every metric has a time granularity, a metric whose granularity was set before
\* the run keeps that value, and the rule run again on what it returned changes
\* nothing, be it the next rule of the pipeline or not.
C8_DefaultGranularityIdempotent ==
    \A k \in GranularityRuns :
        LET before == received[k].received
            after == received[k].returned
        IN  /\ Len(after.metrics) = Len(before.metrics)
            /\ after.semantic_models = before.semantic_models
            /\ \A i \in 1..Len(after.metrics) :
                   /\ after.metrics[i].time_granularity # None
                   /\ before.metrics[i].time_granularity # None =>
                          after.metrics[i] = before.metrics[i]
            /\ SetMetricTimeGranularityRule(after) = after
            /\ (k + 1 \in GranularityRuns) => received[k + 1].returned = after

\* the rule runs twice in a row on a manifest with one metric configured MONTH
\* whose inputs imply YEAR and one metric without a granularity
C8_Witness ==
    /\ pc = "transform_done"
    /\ rules = <<<<"SetMetricTimeGranularityRule", "SetMetricTimeGranularityRule">>>>
    /\ Len(received) = 2
    /\ Len(metrics) = 2
    /\ metrics[1].time_granularity = "MONTH"
    /\ metrics[1].input_granularities = {"YEAR"}
    /\ metrics[2].time_granularity = None
    /\ metrics[2].input_granularities = {"MONTH", "YEAR"}
    /\ manifest.metrics[1].time_granularity = "MONTH"
    /\ manifest.metrics[2].time_granularity = "YEAR"
    /\ received[2].returned = received[2].received


----------------------------------------------------------------------------
(* All the operations together.                                             *)

Init ==
    \/ InitPairing
    \/ InitResolve
    \/ InitName
    \/ InitElements
    \/ InitTopLevel
    \/ InitTransform
    \/ InitGranularity

Next ==
    \/ PairingStep
    \/ PairingReturn
    \/ CheckValidName
    \/ ValidateSemanticModelElements
    \/ ValidateTopLevelObjects
    \/ TransformApply
    \/ TransformReturn

Spec == Init /\ [][Next]_vars

====
